---- MODULE Spec2Model ----
(***************************************************************************)
(* Model of the two Database classes of sap-database (src/src/Database.ts).*)
(*                                                                         *)
(*  - the single-backend class (lines 14-181): constructor, connect,       *)
(*    setConnDbHana, query, procedure, disconnect;                         *)
(*  - the multi-backend class (lines 200-491): connect, setConnDbHana,     *)
(*    setConnDbSql, setConnDbPostgres, executeQuery, executeProcedure,     *)
(*    disconnect.                                                          *)
(*                                                                         *)
(* The native drivers and the generic pool are the environment: every      *)
(* outcome they can report (grant or reject an acquire, call back with or  *)
(* without an error, throw synchronously) is a nondeterministic choice.    *)
(* Strings are sequences of one-character strings.                         *)
(***************************************************************************)
EXTENDS Integers, Sequences, FiniteSets, TLC

\* ------------------------------------------------------------------ bounds
NQ == 2            \* query/procedure calls issued on one instance
ND == 2            \* disconnect calls issued on one instance
MaxCalls == 4      \* calls of every kind issued on one instance
MaxPools == 2      \* pools created over the life of one instance
MaxText == 3       \* tokens in a query text
MaxName == 2       \* length of a procedure name
MaxArgs == 2       \* length of a parameter list

\* --------------------------------------------------------- program constants
DefaultPoolMax == 10
DefaultPoolMin == 5
\* this.timeout = params.timeout ?? 600000   (lines 45, 239)
DefaultTimeout == 600000

\* ------------------------------------------------------------- JS values
\* The JavaScript value undefined where a string is expected: a value that
\* is different from every string over the modelled alphabet.
Undef == << "#undefined" >>
\* An absent pool/handle/promise reference (undefined).
NoRef == 0

Str(s) == [i \in 1..Len(s) |-> s[i]]

WhiteSpace == {" "}

RECURSIVE TrimStart(_)
TrimStart(s) ==
  IF s # << >> /\ Head(s) \in WhiteSpace THEN TrimStart(Tail(s)) ELSE s

RECURSIVE TrimEnd(_)
TrimEnd(s) ==
  IF s # << >> /\ s[Len(s)] \in WhiteSpace
  THEN TrimEnd(SubSeq(s, 1, Len(s) - 1)) ELSE s

\* String.prototype.trim
trim(s) == TrimEnd(TrimStart(s))

\* ToBoolean of a string-or-undefined value: undefined and "" are falsy.
Truthy(s) == s # Undef /\ s # << >>

UpperOf(c) ==
  CASE c = "h" -> "H" [] c = "a" -> "A" [] c = "n" -> "N"
    [] c = "m" -> "M" [] c = "s" -> "S" [] c = "q" -> "Q" [] c = "l" -> "L"
    [] c = "p" -> "P" [] c = "o" -> "O" [] c = "t" -> "T" [] c = "g" -> "G"
    [] c = "r" -> "R" [] c = "e" -> "E" [] c = "c" -> "C"
    [] OTHER -> c

\* String.prototype.toUpperCase
toUpperCase(s) == [i \in 1..Len(s) |-> UpperOf(s[i])]

\* enum DatabaseType
HANA == << "H", "A", "N", "A" >>
MSSQL == << "M", "S", "S", "Q", "L" >>
POSTGRES == << "P", "O", "S", "T", "G", "R", "E", "S" >>
\* Object.values(DatabaseType), in declaration order
DatabaseType == << HANA, MSSQL, POSTGRES >>

Range(f) == {f[i] : i \in DOMAIN f}

\* ------------------------------------------------------------------ text
RECURSIVE Flatten(_)
Flatten(ss) == IF ss = << >> THEN << >> ELSE Head(ss) \o Flatten(Tail(ss))

\* ToString of a string-or-undefined value, as a replacement string
ToStringJS(v) ==
  IF v = Undef THEN Str(<< "u", "n", "d", "e", "f", "i", "n", "e", "d" >>) ELSE v

\* GetSubstitution of String.prototype.replace for a pattern without capture
\* groups: $$ is a dollar sign, $& the match, $' the text after the match;
\* every other character stands for itself (the alphabet of the modelled
\* names has no grave accent, so the "text before the match" form cannot
\* occur).
RECURSIVE GetSubstitution(_, _, _, _)
GetSubstitution(repl, matched, before, after) ==
  IF repl = << >> THEN << >>
  ELSE IF Head(repl) = "$" /\ Len(repl) >= 2 /\ repl[2] \in {"$", "&", "'"}
  THEN (CASE repl[2] = "$" -> << "$" >>
          [] repl[2] = "&" -> matched
          [] OTHER -> after)
       \o GetSubstitution(SubSeq(repl, 3, Len(repl)), matched, before, after)
  ELSE << Head(repl) >> \o GetSubstitution(Tail(repl), matched, before, after)

StartsAt(s, i, pat) ==
  i + Len(pat) - 1 <= Len(s) /\ SubSeq(s, i, i + Len(pat) - 1) = pat

\* s.replace(/pat/g, repl) for a literal, non-empty pat: every match, left
\* to right, not overlapping, from position i on
RECURSIVE ReplaceFrom(_, _, _, _)
ReplaceFrom(s, i, pat, repl) ==
  IF i > Len(s) THEN << >>
  ELSE IF StartsAt(s, i, pat)
  THEN GetSubstitution(repl, pat, SubSeq(s, 1, i - 1),
                       SubSeq(s, i + Len(pat), Len(s)))
       \o ReplaceFrom(s, i + Len(pat), pat, repl)
  ELSE << s[i] >> \o ReplaceFrom(s, i + 1, pat, repl)

ReplaceAll(s, pat, repl) == ReplaceFrom(s, 1, pat, ToStringJS(repl))

RECURSIVE IndexFrom(_, _, _)
IndexFrom(s, i, pat) ==
  IF i > Len(s) THEN 0
  ELSE IF StartsAt(s, i, pat) THEN i ELSE IndexFrom(s, i + 1, pat)

\* s.replace("pat", repl) for a string pattern: the first match only
ReplaceFirst(s, pat, repl) ==
  LET i == IndexFrom(s, 1, pat) IN
  IF i = 0 THEN s
  ELSE SubSeq(s, 1, i - 1)
       \o GetSubstitution(repl, pat, SubSeq(s, 1, i - 1),
                          SubSeq(s, i + Len(pat), Len(s)))
       \o SubSeq(s, i + Len(pat), Len(s))

\* /\?/.test(s); first a test that needs a second ?
HasMarkTwice(s) == \E i, j \in 1..Len(s) : i # j /\ s[i] = "?" /\ s[j] = "?"
HasMark(s) == \E i \in 1..Len(s) : s[i] = "?"

Digit(d) == CASE d = 0 -> "0" [] d = 1 -> "1" [] d = 2 -> "2" [] d = 3 -> "3"
              [] d = 4 -> "4" [] d = 5 -> "5" [] d = 6 -> "6" [] d = 7 -> "7"
              [] d = 8 -> "8" [] OTHER -> "9"

\* the decimal text of a number in a template literal
RECURSIVE Decimal(_)
Decimal(n) == IF n < 10 THEN << Digit(n) >>
              ELSE Decimal(n \div 10) \o << Digit(n % 10) >>

DbToken == Str(<< "{", "d", "b", "}" >>)

\* `mssqlboundparm${i}`   (line 432; line 423 after the @)
BoundNameOfFirst(i) == Str(<< "m", "s", "s", "q", "l", "b", "o", "u", "n", "d",
                              "p", "a", "r", "m" >>) \o Decimal(0)
BoundName(i) == Str(<< "m", "s", "s", "q", "l", "b", "o", "u", "n", "d",
                       "p", "a", "r", "m" >>) \o Decimal(i)

\* while (/\?/.test(finalQuery)) finalQuery = finalQuery.replace("?",
\* `@mssqlboundparm${i++}`)   (lines 421-424): the text and the value of i
\* when the loop ends
RECURSIVE RewriteLoop(_, _)
RewriteLoop(finalQuery, i) ==
  IF HasMark(finalQuery)
  THEN RewriteLoop(ReplaceFirst(finalQuery, << "?" >>, << "@" >> \o BoundName(i)),
                   i + 1)
  ELSE [text |-> finalQuery, i |-> i]

\* lines 419-425; first without the test of line 420
FinalQueryAlwaysRewrites(q, parameters) == RewriteLoop(q, 0).text
FinalQuery(q, parameters) ==
  IF Len(parameters) > 0 THEN RewriteLoop(q, 0).text ELSE q

\* for (i < parameters.length) req.input(`mssqlboundparm${i}`, parameters[i])
Inputs(parameters) ==
  [j \in 1..Len(parameters) |-> << BoundName(j - 1), parameters[j] >>]

\* parameters.map(() => "?").join(",")   (lines 157, 450)
RECURSIVE Join(_, _)
Join(ss, sep) ==
  IF ss = << >> THEN << >>
  ELSE IF Len(ss) = 1 THEN ss[1]
  ELSE ss[1] \o sep \o Join(Tail(ss), sep)

PlaceholdersSpaced(parameters) ==
  Join([j \in 1..Len(parameters) |-> << "?" >>], << ",", " " >>)
Placeholders(parameters) ==
  Join([j \in 1..Len(parameters) |-> << "?" >>], << "," >>)

\* ---------------------------------------------------------- pool settings
\* PoolSettings: a mapping from some option names to numbers; undefined
\* poolSettings spreads to no key at all.
NoSettings == [k \in {} |-> 0]

\* { max: 10, min: 5, ...this.poolSettings }
HanaPoolDefaults == [k \in {"max", "min"} |->
                       IF k = "max" THEN DefaultPoolMax ELSE DefaultPoolMin]

MergeIgnoringCaller(defaults, ps) == defaults

Merge(defaults, ps) ==
  [k \in (DOMAIN defaults) \cup (DOMAIN ps) |->
     IF k \in DOMAIN ps THEN ps[k] ELSE defaults[k]]

\* { idleTimeoutMillis: this.timeout, connectionTimeoutMillis: this.timeout,
\*   ...this.poolSettings }   (lines 358-360)
PgPoolDefaults(t) == [k \in {"idleTimeoutMillis", "connectionTimeoutMillis"} |-> t]

PgPoolOptions(ps, t) == Merge(PgPoolDefaults(t), ps)

\* timeout?: number (types.ts line 38): NoTimeout stands for a timeout that
\* is not given (undefined).
NoTimeout == 0 - 1

\* params.timeout ?? 600000   (lines 45, 239)
Timeout(t) == IF t = NoTimeout THEN DefaultTimeout ELSE t

\* The spread with the two operands in the other order.
HanaPoolOptionsDefaultsLast(ps) == Merge(ps, HanaPoolDefaults)
HanaPoolOptions(ps) == Merge(HanaPoolDefaults, ps)


\* ------------------------------------------------------------------ state
VARIABLES
  cls,           \* "single": class of lines 14-181; "multi": class of lines 200-491
  inst,          \* "none" before construction, "ok" constructed, "threw"
  ires,          \* what the constructor threw
  server, username, password, database, poolSettings,   \* instance fields
  timeout,
  databaseType, isHana, isPostgres,                     \* multi-backend fields
  pool,          \* this.pool: a generic pool, or NoRef
  pgPool,        \* this.pgPool
  mssql,         \* this.mssql
  mssqlConnect,  \* this.mssqlConnect: the promise of connect() on that pool
  pools,         \* every pool object created so far, by identity
  npools,        \* number of pool objects created so far
  ccall, cpc, cprobe, cres,  \* the connect calls: input, position, the pool
                             \* the call built, outcome
  dpc, dtarget, dres,    \* the disconnect calls: position, what the call
                         \* awaits, outcome
  qpc, qtarget, qheld, qrel, qres,   \* the query/procedure calls
  qcall, qgen, qprep, qsent,   \* their text: the input, the text a procedure
                               \* generated, what the call prepared before
                               \* its await, what reached the driver
  everConnected, \* history: some connect call has resolved
  cd,            \* history: position in an undisturbed connect ; disconnect sequence
  rounds         \* history: undisturbed connect ; disconnect sequences completed in a row

fields == << server, username, password, database, poolSettings, timeout,
             databaseType, isHana, isPostgres >>
refs == << pool, pgPool, mssql, mssqlConnect >>
conn == << ccall, cpc, cprobe, cres >>
disc == << dpc, dtarget, dres >>
qs == << qpc, qtarget, qheld, qrel, qres >>
hist == << everConnected, cd, rounds >>
txt == << qcall, qgen, qprep, qsent >>
vars == << cls, inst, ires, fields, refs, pools, npools, conn, disc, qs, hist, txt >>

Q == 1..NQ
PoolId == 1..MaxPools
\* connect calls: each builds at most one pool
C == 1..MaxPools
D == 1..ND

\* A pool object: its kind, whether it still accepts work, the sessions
\* checked out of it, its effective max (0: none given), the state of the
\* promise of its connect(), and the options it was created with.
NoPool == [kind |-> "none", st |-> "none", out |-> 0, max |-> 0, conn |-> "none",
           opts |-> NoSettings]
NewPool(kind, max) ==
  [kind |-> kind, st |-> "live", out |-> 0, max |-> max, conn |-> "none",
   opts |-> NoSettings]

NoCall == [op |-> "none"]
NoErr == [kind |-> "none"]
Ok == [kind |-> "ok"]

\* Calls are numbered in the order the caller issues them: a call takes the
\* first free slot.
Free(q) == qpc[q] = "idle" /\ \A r \in Q : r < q => qpc[r] # "idle"
FreeC(c) == cpc[c] = "idle" /\ \A r \in C : r < c => cpc[r] # "idle"
FreeD(d) == dpc[d] = "idle" /\ \A r \in D : r < d => dpc[r] # "idle"

\* A call that was issued and has not settled.
ConnectInFlight(c) == cpc[c] \notin {"idle", "done"}
DisconnectInFlight(d) == dpc[d] \notin {"idle", "done"}
LifecycleQuiet ==
  /\ \A c \in C : ~ConnectInFlight(c)
  /\ \A d \in D : ~DisconnectInFlight(d)

\* Sessions waiting in acquire()/connect() on pool p.
Waiters(p) == {q \in Q : qpc[q] = "waiting" /\ qtarget[q] = p}
Probing(p) == \E c \in C : cpc[c] = "probe" /\ cprobe[c] = p

\* generic-pool and pg both admit a session only below max; pg without a
\* max option has room for every call of the modelled load.
HasRoom(p) == pools[p].max = 0 \/ pools[p].out < pools[p].max

\* A pool accepts new work only until drain()/end()/close() was called on it.
Accepts(p) == pools[p].st = "live"

\* The error a rejected or thrown cause is wrapped in (lines 57-59, 251).
ConnectionError == [kind |-> "ConnectionError"]
\* `Erro ao desconectar do banco de dados: ${error.message}`: the wrapper
\* carries the message of its cause.
DisconnectionError(cause) == [kind |-> "DisconnectionError", message |-> cause]

\* ----------------------------------------------------- history variables
\* cd follows one undisturbed sequence "connect resolves ; disconnect
\* resolves": it is "off" as soon as a lifecycle call overlaps another one or
\* rejects.  rounds counts such sequences completed back to back.
ConnectStarts ==
  /\ cd' = IF LifecycleQuiet THEN "connecting" ELSE "off"
  /\ rounds' = IF LifecycleQuiet /\ cd = "disconnected" THEN rounds ELSE 0
  /\ UNCHANGED everConnected
ConnectResolves ==
  /\ cd' = IF cd = "connecting" THEN "connected" ELSE "off"
  /\ rounds' = IF cd = "connecting" THEN rounds ELSE 0
  /\ everConnected' = TRUE
ConnectRejects ==
  /\ cd' = "off" /\ rounds' = 0 /\ UNCHANGED everConnected
DisconnectStarts ==
  /\ cd' = IF LifecycleQuiet /\ cd = "connected" THEN "disconnecting" ELSE "off"
  /\ rounds' = IF LifecycleQuiet /\ cd = "connected" THEN rounds ELSE 0
  /\ UNCHANGED everConnected
DisconnectResolves ==
  /\ cd' = IF cd = "disconnecting" THEN "disconnected" ELSE "off"
  /\ rounds' = IF cd = "disconnecting" THEN rounds + 1 ELSE 0
  /\ UNCHANGED everConnected
DisconnectRejects ==
  /\ cd' = "off" /\ rounds' = 0 /\ UNCHANGED everConnected

\* ------------------------------------------------------------ parameters
\* !params.x || !params.x.trim()   (lines 31, 34, 37)
NeverBlank(v) == FALSE
Blank(v) == ~Truthy(v) \/ ~Truthy(trim(v))

Required(f) == [kind |-> "Required", field |-> f]

\* new PgPool({... ...this.poolSettings })   (lines 352-361)
PgMax(ps) == IF "max" \in DOMAIN ps THEN ps["max"] ELSE 0

\* The pool an existing reference would be reused for, were no pool built.
ReusePool(kind, ps, t, ref) ==
  IF ref # NoRef THEN << ref, pools >>
  ELSE << npools + 1, [pools EXCEPT ![npools + 1] = NewPool(kind, 0)] >>

\* createPool / new PgPool / new mssql.ConnectionPool: a new pool object
\* with the pool options of lines 101-105 / 289-293 / 360.
BuildPool(kind, ps, t, ref) ==
  << npools + 1,
     [pools EXCEPT ![npools + 1] =
        [NewPool(kind, CASE kind = "HANA" -> HanaPoolOptions(ps)["max"]
                         [] kind = "PG" -> PgMax(ps)
                         [] OTHER -> 0)
           EXCEPT !.opts = CASE kind = "HANA" -> HanaPoolOptions(ps)
                             [] kind = "PG" -> PgPoolOptions(ps, t)
                             [] OTHER -> NoSettings]] >>

\* ====================================================== text of a call ==
\* const q = this.database ? query.replace(/{db}/g, this.database) : query
\* (line 126)
SubstituteAlways(text, db) == ReplaceAll(text, DbToken, db)
Substitute(text, db) ==
  IF Truthy(db) THEN ReplaceAll(text, DbToken, db) ELSE text

\* const q = query.replace(/{db}/g, this.database)   (line 376)
SubstituteFirstOnly(text, db) == ReplaceFirst(text, DbToken, ToStringJS(db))
SubstituteM(text, db) == ReplaceAll(text, DbToken, db)

\* What query hands to client.exec (lines 126-132)
Dispatch(text, parameters) ==
  LET q == Substitute(text, database) IN
  [via |-> "exec", input |-> text, args |-> parameters, q |-> q, text |-> q,
   parameters |-> parameters, inputs |-> << >>]

\* What executeQuery hands to the driver of the connected backend
\* (lines 376-439)
DispatchM(text, parameters) ==
  LET q == SubstituteM(text, database) IN
  IF isHana THEN
    [via |-> "exec", input |-> text, args |-> parameters, q |-> q, text |-> q,
     parameters |-> parameters, inputs |-> << >>]
  ELSE IF isPostgres THEN
    [via |-> "client.query", input |-> text, args |-> parameters, q |-> q,
     text |-> q,
     parameters |-> parameters, inputs |-> << >>]
  ELSE IF Len(parameters) > 0 THEN
    [via |-> "req.query", input |-> text, args |-> parameters, q |-> q,
     text |-> FinalQuery(q, parameters),
     parameters |-> << >>, inputs |-> Inputs(parameters)]
  ELSE
    [via |-> "mssql.query", input |-> text, args |-> parameters, q |-> q,
     text |-> FinalQuery(q, parameters),
     parameters |-> << >>, inputs |-> << >>]

\* `CALL ${schemaPrefix}"${name}"(${placeholders})`   (lines 157-159)
CallText(name, parameters, db) ==
  Str(<< "C", "A", "L", "L", " " >>)
  \o (IF Truthy(db) THEN DbToken \o << "." >> ELSE << >>)
  \o << "\"" >> \o name \o << "\"" >>
  \o << "(" >> \o Placeholders(parameters) \o << ")" >>

\* lines 453-459
CallTextM(name, parameters) ==
  IF isHana THEN
    Str(<< "C", "A", "L", "L", " " >>) \o DbToken \o << "." >>
    \o << "\"" >> \o name \o << "\"" >>
    \o << "(" >> \o Placeholders(parameters) \o << ")" >>
  ELSE IF isPostgres THEN
    Str(<< "S", "E", "L", "E", "C", "T", " ", "*", " ", "F", "R", "O", "M", " " >>)
    \o name \o << "(" >> \o Placeholders(parameters) \o << ")" >>
  ELSE
    Str(<< "E", "X", "E", "C", " " >>)
    \o << "\"" >> \o name \o << "\"" >> \o << " " >> \o Placeholders(parameters)

\* ================================================= single-backend class ==
\* constructor (lines 30-47)
constructor(params) ==
  /\ cls = "single" /\ inst = "none"
  /\ IF Blank(params.server) THEN
       /\ inst' = "threw" /\ ires' = Required("server")
       /\ UNCHANGED fields
     ELSE IF Blank(params.username) THEN
       /\ inst' = "threw" /\ ires' = Required("username")
       /\ UNCHANGED fields
     ELSE IF Blank(params.password) THEN
       /\ inst' = "threw" /\ ires' = Required("password")
       /\ UNCHANGED fields
     ELSE
       /\ inst' = "ok" /\ ires' = NoErr
       /\ database' = (IF Truthy(params.database) THEN params.database ELSE << >>)
       /\ username' = params.username
       /\ password' = params.password
       /\ server' = params.server
       /\ poolSettings' = params.poolSettings
       /\ timeout' = Timeout(params.timeout)
       /\ UNCHANGED << databaseType, isHana, isPostgres >>
  /\ UNCHANGED << cls, refs, pools, npools, conn, disc, qs, hist, txt >>

\* connect -> setConnDbHana up to the await of the probe (lines 53-55,
\* 67-109): a new pool replaces this.pool and one acquire is issued on it.
\* Nothing keeps a call from starting while another one is in flight.
connect(c) ==
  /\ cls = "single" /\ inst = "ok" /\ FreeC(c)
  /\ npools' = npools + 1
  /\ LET b == BuildPool("HANA", poolSettings, timeout, pool) IN
       /\ pool' = b[1] /\ pools' = b[2]
       /\ cprobe' = [cprobe EXCEPT ![c] = b[1]]
  /\ cpc' = [cpc EXCEPT ![c] = "probe"]
  /\ ccall' = [ccall EXCEPT ![c] = [op |-> "connect"]]
  /\ ConnectStarts
  /\ UNCHANGED << cls, inst, ires, fields, pgPool, mssql, mssqlConnect, cres,
                  disc, qs, txt >>

\* The probe acquire resolves; this.pool.release(client) (line 110) reads
\* this.pool again.  Released to the pool it came from, the session is back;
\* with this.pool cleared the release throws; released to another pool the
\* session stays checked out of its own pool.  setConnDbHana has then
\* returned or thrown; connect is still waiting at line 55.
connect_probeResolved(c) ==
  /\ cls = "single" /\ cpc[c] = "probe"
  /\ HasRoom(cprobe[c])
  /\ IF pool = cprobe[c] THEN
       /\ UNCHANGED << pools, cres >>
       /\ cpc' = [cpc EXCEPT ![c] = "return"]
     ELSE IF pool = NoRef THEN
       /\ pools' = [pools EXCEPT ![cprobe[c]].out = @ + 1]
       /\ cres' = [cres EXCEPT ![c] = ConnectionError]
       /\ cpc' = [cpc EXCEPT ![c] = "reject"]
     ELSE
       /\ pools' = [pools EXCEPT ![cprobe[c]].out = @ + 1]
       /\ UNCHANGED cres
       /\ cpc' = [cpc EXCEPT ![c] = "return"]
  /\ UNCHANGED << cls, inst, ires, fields, refs, npools, ccall, cprobe, disc,
                  qs, hist, txt >>

\* The probe acquire rejects: setConnDbHana throws; this.pool keeps the pool
\* of line 101.
connect_probeRejected(c) ==
  /\ cls = "single" /\ cpc[c] = "probe"
  /\ cpc' = [cpc EXCEPT ![c] = "reject"]
  /\ cres' = [cres EXCEPT ![c] = ConnectionError]
  /\ UNCHANGED << cls, inst, ires, fields, refs, pools, npools, ccall, cprobe,
                  disc, qs, hist, txt >>

\* The await of line 55 resumes after setConnDbHana returned: connect
\* resolves.
connect_return(c) ==
  /\ cls = "single" /\ cpc[c] = "return"
  /\ cpc' = [cpc EXCEPT ![c] = "done"]
  /\ cres' = [cres EXCEPT ![c] = Ok]
  /\ ConnectResolves
  /\ UNCHANGED << cls, inst, ires, fields, refs, pools, npools, ccall, cprobe,
                  disc, qs, txt >>

\* The await of line 55 resumes after setConnDbHana threw: lines 56-60 wrap
\* the cause and connect rejects.
connect_rejected(c) ==
  /\ cls = "single" /\ cpc[c] = "reject"
  /\ cpc' = [cpc EXCEPT ![c] = "done"]
  /\ ConnectRejects
  /\ UNCHANGED << cls, inst, ires, fields, refs, pools, npools, ccall, cprobe,
                  cres, disc, qs, txt >>

\* if (!this.pool)   (lines 121, 153)
NoPoolGuardAlwaysPasses(p) == FALSE
NotConnected(p) == p = NoRef

\* this.pool.acquire() at lines 129-130 / 384-385: a pool that is draining
\* rejects at once, otherwise the call waits for a session.
Acquire(q, p) ==
  IF Accepts(p)
  THEN /\ qpc' = [qpc EXCEPT ![q] = "waiting"]
       /\ qtarget' = [qtarget EXCEPT ![q] = p]
       /\ qres' = [qres EXCEPT ![q] = "none"]
  ELSE /\ qpc' = [qpc EXCEPT ![q] = "done"]
       /\ qtarget' = [qtarget EXCEPT ![q] = p]
       /\ qres' = [qres EXCEPT ![q] = "AcquireError"]

Fail(q, e) ==
  /\ qpc' = [qpc EXCEPT ![q] = "done"]
  /\ qres' = [qres EXCEPT ![q] = e]
  /\ UNCHANGED qtarget

\* The text of call q: its input, the text a procedure generated (Undef for
\* a query), and what the call prepared for the driver before its first
\* await (NoCall when a guard rejected it first).
Prepare(q, call, gen, prep) ==
  /\ qcall' = [qcall EXCEPT ![q] = call]
  /\ qgen' = [qgen EXCEPT ![q] = gen]
  /\ qprep' = [qprep EXCEPT ![q] = prep]
  /\ UNCHANGED qsent

\* The driver is handed what the call prepared.
Send(q) == qsent' = [qsent EXCEPT ![q] = qprep[q]] /\ UNCHANGED << qcall, qgen, qprep >>

\* query (lines 120-143), up to the acquire: the guard of line 121, the
\* substitution of line 126, then acquire().
query(q, text, parameters) ==
  /\ cls = "single" /\ inst = "ok" /\ Free(q)
  /\ IF NotConnected(pool) THEN
       /\ Fail(q, "NotConnected")
       /\ Prepare(q, [op |-> "query", text |-> text, parameters |-> parameters],
                  Undef, NoCall)
     ELSE
       /\ Acquire(q, pool)
       /\ Prepare(q, [op |-> "query", text |-> text, parameters |-> parameters],
                  Undef, Dispatch(text, parameters))
  /\ UNCHANGED << cls, inst, ires, fields, refs, pools, npools, conn, disc,
                  qheld, qrel, hist >>

\* procedure (lines 152-162): the guard of line 153, the text of lines
\* 157-159, then query with the generated text.
procedure(q, name, parameters) ==
  /\ cls = "single" /\ inst = "ok" /\ Free(q)
  /\ IF NotConnected(pool) THEN
       /\ Fail(q, "NotConnected")
       /\ Prepare(q, [op |-> "procedure", name |-> name, parameters |-> parameters],
                  Undef, NoCall)
     ELSE
       /\ Acquire(q, pool)
       /\ Prepare(q, [op |-> "procedure", name |-> name, parameters |-> parameters],
                  CallText(name, parameters, database),
                  Dispatch(CallText(name, parameters, database), parameters))
  /\ UNCHANGED << cls, inst, ires, fields, refs, pools, npools, conn, disc,
                  qheld, qrel, hist >>

\* disconnect (lines 168-180), up to the await of drain().  Nothing keeps a
\* call from starting while another one is in flight.
disconnect(d) ==
  /\ cls = "single" /\ inst = "ok" /\ FreeD(d)
  /\ IF pool # NoRef THEN
       /\ dpc' = [dpc EXCEPT ![d] = "drain"]
       /\ dtarget' = [dtarget EXCEPT ![d] = pool]
       /\ UNCHANGED dres
       /\ pools' = [pools EXCEPT ![pool].st = "draining"]
       /\ DisconnectStarts
     ELSE
       /\ dpc' = [dpc EXCEPT ![d] = "done"]
       /\ dres' = [dres EXCEPT ![d] = Ok]
       /\ UNCHANGED << dtarget, pools >>
       /\ cd' = "off" /\ rounds' = 0 /\ UNCHANGED everConnected
  /\ UNCHANGED << cls, inst, ires, fields, refs, npools, conn, qs, txt >>

\* drain() resolves once no acquire is waiting on the pool and every session
\* is back; then clear() is called on what this.pool is now (line 172): with
\* this.pool cleared by another call the read throws and line 176 wraps it.
\* A drain() that rejects is wrapped at line 176 as well.
Drained(p) == Waiters(p) = {} /\ ~Probing(p) /\ pools[p].out = 0

disconnect_drained(d, err) ==
  /\ cls = "single" /\ dpc[d] = "drain"
  /\ IF err THEN
       /\ dpc' = [dpc EXCEPT ![d] = "done"]
       /\ dtarget' = [dtarget EXCEPT ![d] = NoRef]
       /\ dres' = [dres EXCEPT ![d] = DisconnectionError("DrainError")]
       /\ DisconnectRejects
     ELSE IF pool = NoRef THEN
       /\ Drained(dtarget[d])
       /\ dpc' = [dpc EXCEPT ![d] = "done"]
       /\ dtarget' = [dtarget EXCEPT ![d] = NoRef]
       /\ dres' = [dres EXCEPT ![d] = DisconnectionError("TypeError")]
       /\ DisconnectRejects
     ELSE
       /\ Drained(dtarget[d])
       /\ dpc' = [dpc EXCEPT ![d] = "clear"]
       /\ dtarget' = [dtarget EXCEPT ![d] = pool]
       /\ UNCHANGED << dres, hist >>
  /\ UNCHANGED << cls, inst, ires, fields, refs, pools, npools, conn, qs, txt >>

\* clear() resolves and line 173 clears this.pool, or clear() rejects and
\* line 176 wraps the cause: line 173 is not reached.
disconnect_cleared(d, err) ==
  /\ cls = "single" /\ dpc[d] = "clear"
  /\ dpc' = [dpc EXCEPT ![d] = "done"]
  /\ dtarget' = [dtarget EXCEPT ![d] = NoRef]
  /\ IF err THEN
       /\ dres' = [dres EXCEPT ![d] = DisconnectionError("ClearError")]
       /\ DisconnectRejects
       /\ UNCHANGED pool
     ELSE
       /\ pool' = NoRef
       /\ dres' = [dres EXCEPT ![d] = Ok]
       /\ DisconnectResolves
  /\ UNCHANGED << cls, inst, ires, fields, pgPool, mssql, mssqlConnect, pools,
                  npools, conn, qs, txt >>

\* ------------------------------------------- calls in flight (columnar)
\* The acquire of lines 129-131 / 384-386 resolves and the then-handler calls
\* client.exec (line 132 / 387) with the prepared text.  exec either starts,
\* or throws at once: the throw rejects the handler's promise and
\* .catch(reject) (line 141 / 396) rejects the call; nothing on that path
\* releases the session.
query_acquired(q, throws) ==
  /\ qpc[q] = "waiting" /\ pools[qtarget[q]].kind = "HANA"
  /\ HasRoom(qtarget[q])
  /\ pools' = [pools EXCEPT ![qtarget[q]].out = @ + 1]
  /\ qheld' = [qheld EXCEPT ![q] = qtarget[q]]
  /\ Send(q)
  /\ IF throws
     THEN /\ qpc' = [qpc EXCEPT ![q] = "done"]
          /\ qres' = [qres EXCEPT ![q] = "QueryError"]
     ELSE /\ qpc' = [qpc EXCEPT ![q] = "exec"]
          /\ UNCHANGED qres
  /\ UNCHANGED << cls, inst, ires, fields, refs, npools, conn, disc, qtarget,
                  qrel, hist >>

\* The acquire rejects (the pool gave up waiting): .catch(reject); nothing
\* reaches the driver.
query_acquireRejected(q) ==
  /\ qpc[q] = "waiting"
  /\ qpc' = [qpc EXCEPT ![q] = "done"]
  /\ qres' = [qres EXCEPT ![q] = "AcquireError"]
  /\ UNCHANGED << cls, inst, ires, fields, refs, pools, npools, conn, disc,
                  qtarget, qheld, qrel, hist, txt >>

\* The callback of client.exec (lines 132-139 / 387-394):
\* this.pool!.release(client) on what this.pool is now, then reject(err) or
\* resolve(r).  With this.pool cleared the release throws inside the driver's
\* callback and the call never settles; a pool that does not own the session
\* refuses it.
query_execCallback(q, err) ==
  /\ qpc[q] = "exec" /\ pools[qheld[q]].kind = "HANA"
  /\ IF pool = NoRef THEN
       /\ qpc' = [qpc EXCEPT ![q] = "hung"]
       /\ UNCHANGED << pools, qheld, qrel, qres >>
     ELSE
       /\ qrel' = [qrel EXCEPT ![q] = @ + 1]
       /\ IF pool = qheld[q]
          THEN /\ pools' = [pools EXCEPT ![pool].out = @ - 1]
               /\ qheld' = [qheld EXCEPT ![q] = NoRef]
          ELSE UNCHANGED << pools, qheld >>
       /\ qpc' = [qpc EXCEPT ![q] = "done"]
       /\ qres' = [qres EXCEPT ![q] = IF err THEN "QueryError" ELSE "ok"]
  /\ UNCHANGED << cls, inst, ires, fields, refs, npools, conn, disc, qtarget,
                  hist, txt >>

\* ================================================== multi-backend class ==
\* Object.values(DatabaseType).includes(databaseTypeStr)   (line 226)
AnyTypeIsSupported(t) == TRUE
IsDatabaseType(t) == t \in Range(DatabaseType)

\* line 227-229: the message carries databaseTypeStr and the joined values
InvalidType(t) == [kind |-> "InvalidType", value |-> t, supported |-> DatabaseType]

\* this.server.includes(":")   (lines 304, 346): reading a member of
\* undefined throws.
ServerReadThrows(t, s) == t \in {POSTGRES, MSSQL} /\ s = Undef

\* connect (lines 222-253) with setConnDbHana (259-294), setConnDbPostgres
\* (342-362) and setConnDbSql up to the await of line 310.  Nothing keeps a
\* call from starting while another one is in flight.  The throw of line 227
\* comes before any await: the promise connect returns is already rejected.
\* A throw inside setConnDb* reaches the catch of line 250 only when the
\* await of lines 244-248 resumes.
connectM(c, params) ==
  /\ cls = "multi" /\ inst = "ok" /\ FreeC(c)
  /\ LET databaseTypeStr == toUpperCase(params.databaseType) IN
     IF ~IsDatabaseType(databaseTypeStr) THEN
       /\ cpc' = [cpc EXCEPT ![c] = "done"]
       /\ cres' = [cres EXCEPT ![c] = InvalidType(databaseTypeStr)]
       /\ ConnectRejects
       /\ UNCHANGED << fields, refs, pools, npools, cprobe >>
     ELSE
       /\ databaseType' = databaseTypeStr
       /\ isHana' = (databaseTypeStr = HANA)
       /\ isPostgres' = (databaseTypeStr = POSTGRES)
       /\ database' = params.database
       /\ username' = params.username
       /\ password' = params.password
       /\ server' = params.server
       /\ poolSettings' = params.poolSettings
       /\ timeout' = Timeout(params.timeout)
       /\ ConnectStarts
       /\ IF ServerReadThrows(databaseTypeStr, params.server) THEN
            /\ cpc' = [cpc EXCEPT ![c] = "reject"]
            /\ cres' = [cres EXCEPT ![c] = ConnectionError]
            /\ UNCHANGED << refs, pools, npools, cprobe >>
          ELSE IF databaseTypeStr = HANA THEN
            LET b == BuildPool("HANA", params.poolSettings, Timeout(params.timeout), pool) IN
            /\ pool' = b[1] /\ pools' = b[2] /\ npools' = npools + 1
            /\ cprobe' = [cprobe EXCEPT ![c] = b[1]]
            /\ cpc' = [cpc EXCEPT ![c] = "return"]
            /\ UNCHANGED << pgPool, mssql, mssqlConnect, cres >>
          ELSE IF databaseTypeStr = POSTGRES THEN
            LET b == BuildPool("PG", params.poolSettings, Timeout(params.timeout), pgPool) IN
            /\ pgPool' = b[1] /\ pools' = b[2] /\ npools' = npools + 1
            /\ cprobe' = [cprobe EXCEPT ![c] = b[1]]
            /\ cpc' = [cpc EXCEPT ![c] = "return"]
            /\ UNCHANGED << pool, mssql, mssqlConnect, cres >>
          ELSE
            LET b == BuildPool("MSSQL", params.poolSettings, Timeout(params.timeout), mssql) IN
            /\ mssql' = b[1] /\ pools' = b[2] /\ npools' = npools + 1
            /\ cprobe' = [cprobe EXCEPT ![c] = b[1]]
            /\ cpc' = [cpc EXCEPT ![c] = "ctor"]
            /\ UNCHANGED << pool, pgPool, mssqlConnect, cres >>
  /\ ccall' = [ccall EXCEPT ![c] =
                 [op |-> "connect", databaseType |-> params.databaseType]]
  /\ UNCHANGED << cls, inst, ires, disc, qs, txt >>

\* The await of lines 244-248 resumes after setConnDb* threw: the catch of
\* line 250 wraps the cause and connect rejects.
connectM_rejected(c) ==
  /\ cls = "multi" /\ cpc[c] = "reject"
  /\ cpc' = [cpc EXCEPT ![c] = "done"]
  /\ ConnectRejects
  /\ UNCHANGED << cls, inst, ires, fields, refs, pools, npools, ccall, cprobe,
                  cres, disc, qs, txt >>

\* The await of lines 244-248 resumes after setConnDb* returned: connect
\* resolves.
connectM_return(c) ==
  /\ cls = "multi" /\ cpc[c] = "return"
  /\ cpc' = [cpc EXCEPT ![c] = "done"]
  /\ cres' = [cres EXCEPT ![c] = Ok]
  /\ ConnectResolves
  /\ UNCHANGED << cls, inst, ires, fields, refs, pools, npools, ccall, cprobe,
                  disc, qs, txt >>

\* The callback of new mssql.ConnectionPool (lines 324-327).  Without error,
\* line 335 stores the promise of connect() on what this.mssql is now and
\* setConnDbSql returns; with an error it throws and this.mssql keeps its
\* pool.  connect is still waiting at line 248.  connect() on a pool that
\* already has a connection promise settles as that one does.
setConnDbSql_callback(c, err) ==
  /\ cls = "multi" /\ cpc[c] = "ctor"
  /\ IF err THEN
       /\ cpc' = [cpc EXCEPT ![c] = "reject"]
       /\ cres' = [cres EXCEPT ![c] = ConnectionError]
       /\ UNCHANGED << refs, pools >>
     ELSE
       /\ cpc' = [cpc EXCEPT ![c] = "return"]
       /\ mssqlConnect' = mssql
       /\ pools' = [pools EXCEPT ![mssql].conn =
                      IF @ = "none" THEN "pending" ELSE @]
       /\ UNCHANGED << pool, pgPool, mssql, cres >>
  /\ UNCHANGED << cls, inst, ires, fields, npools, ccall, cprobe, disc, qs,
                  hist, txt >>

\* The promise stored in this.mssqlConnect settles.
mssqlConnect_settles(p, err) ==
  /\ pools[p].kind = "MSSQL" /\ pools[p].conn = "pending"
  /\ pools' = [pools EXCEPT ![p].conn = IF err THEN "err" ELSE "ok"]
  /\ UNCHANGED << cls, inst, ires, fields, refs, npools, conn, disc, qs, hist, txt >>

\* if (!this.isHana && !this.isPostgres && !this.mssql)   (line 372)
NotConnectedM == ~isHana /\ ~isPostgres /\ mssql = NoRef

\* The body of executeQuery (lines 372-427) up to its first await, for the
\* call q whose input is call, with the text gen generated by
\* executeProcedure (Undef for a query).
ExecuteQueryBody(q, call, gen, text, parameters) ==
  IF NotConnectedM THEN
    Fail(q, "NotConnected") /\ Prepare(q, call, gen, NoCall)
  ELSE IF isHana THEN
    IF pool = NoRef
    THEN Fail(q, "NotInitialized") /\ Prepare(q, call, gen, NoCall)
    ELSE Acquire(q, pool) /\ Prepare(q, call, gen, DispatchM(text, parameters))
  ELSE IF isPostgres THEN
    IF pgPool = NoRef
    THEN Fail(q, "NotInitialized") /\ Prepare(q, call, gen, NoCall)
    ELSE Acquire(q, pgPool) /\ Prepare(q, call, gen, DispatchM(text, parameters))
  ELSE IF mssql = NoRef \/ mssqlConnect = NoRef THEN
    Fail(q, "NotInitialized") /\ Prepare(q, call, gen, NoCall)
  ELSE /\ qpc' = [qpc EXCEPT ![q] = "await_connect"]
       /\ qtarget' = [qtarget EXCEPT ![q] = mssqlConnect]
       /\ qres' = [qres EXCEPT ![q] = "none"]
       /\ Prepare(q, call, gen, DispatchM(text, parameters))

\* executeQuery (lines 371-440), up to its first await
executeQuery(q, text, parameters) ==
  /\ cls = "multi" /\ inst = "ok" /\ Free(q)
  /\ ExecuteQueryBody(q, [op |-> "query", text |-> text, parameters |-> parameters],
                      Undef, text, parameters)
  /\ UNCHANGED << cls, inst, ires, fields, refs, pools, npools, conn, disc,
                  qheld, qrel, hist >>

\* executeProcedure (lines 449-462): builds the text, then executeQuery
executeProcedure(q, name, parameters) ==
  /\ cls = "multi" /\ inst = "ok" /\ Free(q)
  /\ ExecuteQueryBody(q, [op |-> "procedure", name |-> name,
                          parameters |-> parameters],
                      CallTextM(name, parameters),
                      CallTextM(name, parameters), parameters)
  /\ UNCHANGED << cls, inst, ires, fields, refs, pools, npools, conn, disc,
                  qheld, qrel, hist >>

\* await this.pgPool.connect() resolves (line 405); client.query is issued
\* with the prepared text.
executeQuery_pgConnected(q) ==
  /\ qpc[q] = "waiting" /\ pools[qtarget[q]].kind = "PG"
  /\ Accepts(qtarget[q]) /\ HasRoom(qtarget[q])
  /\ pools' = [pools EXCEPT ![qtarget[q]].out = @ + 1]
  /\ qheld' = [qheld EXCEPT ![q] = qtarget[q]]
  /\ qpc' = [qpc EXCEPT ![q] = "exec"]
  /\ Send(q)
  /\ UNCHANGED << cls, inst, ires, fields, refs, npools, conn, disc, qtarget,
                  qrel, qres, hist >>

\* client.query settles; finally { client.release() }   (lines 406-411)
executeQuery_pgSettled(q, err) ==
  /\ qpc[q] = "exec" /\ pools[qheld[q]].kind = "PG"
  /\ pools' = [pools EXCEPT ![qheld[q]].out = @ - 1]
  /\ qheld' = [qheld EXCEPT ![q] = NoRef]
  /\ qrel' = [qrel EXCEPT ![q] = @ + 1]
  /\ qpc' = [qpc EXCEPT ![q] = "done"]
  /\ qres' = [qres EXCEPT ![q] = IF err THEN "QueryError" ELSE "ok"]
  /\ UNCHANGED << cls, inst, ires, fields, refs, npools, conn, disc, qtarget,
                  hist, txt >>

\* await this.mssqlConnect (line 427) settles: a rejection is the call's
\* error and nothing reaches the driver, otherwise the request goes to what
\* this.mssql is now (430/438) with the prepared text.
executeQuery_mssqlAwaited(q) ==
  /\ qpc[q] = "await_connect" /\ pools[qtarget[q]].conn \in {"ok", "err"}
  /\ IF pools[qtarget[q]].conn = "err"
     THEN /\ qpc' = [qpc EXCEPT ![q] = "done"]
          /\ qres' = [qres EXCEPT ![q] = "ConnectError"]
          /\ UNCHANGED << qtarget, txt >>
     ELSE /\ qpc' = [qpc EXCEPT ![q] = "request"]
          /\ qtarget' = [qtarget EXCEPT ![q] = mssql]
          /\ Send(q)
          /\ UNCHANGED qres
  /\ UNCHANGED << cls, inst, ires, fields, refs, pools, npools, conn, disc,
                  qheld, qrel, hist >>

\* req.query / this.mssql.query settles (lines 434-439)
executeQuery_mssqlSettled(q, err) ==
  /\ qpc[q] = "request"
  /\ qpc' = [qpc EXCEPT ![q] = "done"]
  /\ qres' = [qres EXCEPT ![q] = IF err THEN "QueryError" ELSE "ok"]
  /\ UNCHANGED << cls, inst, ires, fields, refs, pools, npools, conn, disc,
                  qtarget, qheld, qrel, hist, txt >>

\* disconnect (lines 468-490), up to its first await.  pg refuses a second
\* end() with a rejected promise, which line 477 awaits; the branches
\* without a handle resolve at once.  Nothing keeps a call from starting
\* while another one is in flight.
disconnectM(d) ==
  /\ cls = "multi" /\ inst = "ok" /\ FreeD(d)
  /\ IF isHana /\ pool # NoRef THEN
       /\ dpc' = [dpc EXCEPT ![d] = "drain"]
       /\ dtarget' = [dtarget EXCEPT ![d] = pool]
       /\ UNCHANGED dres
       /\ pools' = [pools EXCEPT ![pool].st = "draining"]
       /\ DisconnectStarts
     ELSE IF ~isHana /\ isPostgres /\ pgPool # NoRef THEN
       IF Accepts(pgPool) THEN
         /\ dpc' = [dpc EXCEPT ![d] = "end"]
         /\ dtarget' = [dtarget EXCEPT ![d] = pgPool]
         /\ UNCHANGED dres
         /\ pools' = [pools EXCEPT ![pgPool].st = "draining"]
         /\ DisconnectStarts
       ELSE
         /\ dpc' = [dpc EXCEPT ![d] = "end_refused"]
         /\ dtarget' = [dtarget EXCEPT ![d] = pgPool]
         /\ DisconnectStarts
         /\ UNCHANGED << dres, pools >>
     ELSE IF ~isHana /\ ~isPostgres /\ mssqlConnect # NoRef THEN
       /\ dpc' = [dpc EXCEPT ![d] = "await_connect"]
       /\ dtarget' = [dtarget EXCEPT ![d] = mssqlConnect]
       /\ UNCHANGED dres
       /\ DisconnectStarts
       /\ UNCHANGED pools
     ELSE
       /\ dpc' = [dpc EXCEPT ![d] = "done"]
       /\ dres' = [dres EXCEPT ![d] = Ok]
       /\ cd' = "off" /\ rounds' = 0
       /\ UNCHANGED << dtarget, pools, everConnected >>
  /\ UNCHANGED << cls, inst, ires, fields, refs, npools, conn, qs, txt >>

\* drain() resolves, clear() is called on what this.pool is now (472-473);
\* a drain() that rejects is wrapped at line 485.
disconnectM_drained(d, err) ==
  /\ cls = "multi" /\ dpc[d] = "drain"
  /\ IF err THEN
       /\ dpc' = [dpc EXCEPT ![d] = "done"]
       /\ dtarget' = [dtarget EXCEPT ![d] = NoRef]
       /\ dres' = [dres EXCEPT ![d] = DisconnectionError("DrainError")]
       /\ DisconnectRejects
     ELSE
       /\ Drained(dtarget[d])
       /\ dpc' = [dpc EXCEPT ![d] = "clear"]
       /\ dtarget' = [dtarget EXCEPT ![d] = pool]
       /\ UNCHANGED << dres, hist >>
  /\ UNCHANGED << cls, inst, ires, fields, refs, pools, npools, conn, qs, txt >>

\* clear() resolves and so does disconnect, or it rejects and line 485 wraps
\* the cause: no field is touched either way.
disconnectM_cleared(d, err) ==
  /\ cls = "multi" /\ dpc[d] = "clear"
  /\ dpc' = [dpc EXCEPT ![d] = "done"]
  /\ dtarget' = [dtarget EXCEPT ![d] = NoRef]
  /\ IF err THEN
       /\ dres' = [dres EXCEPT ![d] = DisconnectionError("ClearError")]
       /\ DisconnectRejects
     ELSE
       /\ dres' = [dres EXCEPT ![d] = Ok]
       /\ DisconnectResolves
  /\ UNCHANGED << cls, inst, ires, fields, refs, pools, npools, conn, qs, txt >>

\* pgPool.end() resolves once every client is back and closed (line 477), or
\* rejects and line 485 wraps the cause.
disconnectM_ended(d, err) ==
  /\ cls = "multi" /\ dpc[d] = "end"
  /\ dpc' = [dpc EXCEPT ![d] = "done"]
  /\ dtarget' = [dtarget EXCEPT ![d] = NoRef]
  /\ IF err THEN
       /\ dres' = [dres EXCEPT ![d] = DisconnectionError("EndError")]
       /\ DisconnectRejects
     ELSE
       /\ pools[dtarget[d]].out = 0
       /\ dres' = [dres EXCEPT ![d] = Ok]
       /\ DisconnectResolves
  /\ UNCHANGED << cls, inst, ires, fields, refs, pools, npools, conn, qs, txt >>

\* The await of line 477 resumes on the rejection of a second end(): the
\* catch of line 485 wraps the cause.
disconnectM_endRefused(d) ==
  /\ cls = "multi" /\ dpc[d] = "end_refused"
  /\ dpc' = [dpc EXCEPT ![d] = "done"]
  /\ dtarget' = [dtarget EXCEPT ![d] = NoRef]
  /\ dres' = [dres EXCEPT ![d] = DisconnectionError("EndCalledTwice")]
  /\ DisconnectRejects
  /\ UNCHANGED << cls, inst, ires, fields, refs, pools, npools, conn, qs, txt >>

\* await this.mssqlConnect settles (line 481): a rejection is wrapped, else
\* this.mssql!.close() (line 482) closes what this.mssql is now.
disconnectM_awaited(d) ==
  /\ cls = "multi" /\ dpc[d] = "await_connect"
  /\ pools[dtarget[d]].conn \in {"ok", "err"}
  /\ IF pools[dtarget[d]].conn = "err" THEN
       /\ dpc' = [dpc EXCEPT ![d] = "done"]
       /\ dtarget' = [dtarget EXCEPT ![d] = NoRef]
       /\ dres' = [dres EXCEPT ![d] = DisconnectionError("ConnectError")]
       /\ DisconnectRejects
       /\ UNCHANGED pools
     ELSE
       /\ dpc' = [dpc EXCEPT ![d] = "close"]
       /\ dtarget' = [dtarget EXCEPT ![d] = mssql]
       /\ pools' = [pools EXCEPT ![mssql].st = "closed"]
       /\ UNCHANGED << dres, hist >>
  /\ UNCHANGED << cls, inst, ires, fields, refs, npools, conn, qs, txt >>

\* close() resolves, or rejects and line 485 wraps the cause.
disconnectM_closed(d, err) ==
  /\ cls = "multi" /\ dpc[d] = "close"
  /\ dpc' = [dpc EXCEPT ![d] = "done"]
  /\ dtarget' = [dtarget EXCEPT ![d] = NoRef]
  /\ IF err THEN
       /\ dres' = [dres EXCEPT ![d] = DisconnectionError("CloseError")]
       /\ DisconnectRejects
     ELSE
       /\ dres' = [dres EXCEPT ![d] = Ok]
       /\ DisconnectResolves
  /\ UNCHANGED << cls, inst, ires, fields, refs, pools, npools, conn, qs, txt >>

\* ===================================================== specification ==
PoolSettingsSet == {NoSettings, "max" :> 1}

\* Well-formed connection parameters; every connect of the multi-backend
\* class picks its own.
\* setConnDbSql reads no pool setting (lines 311-323): none is passed with it.
MainParams ==
  { params \in
      [server : {Str(<< "h" >>)}, username : {Str(<< "u" >>)},
       password : {Str(<< "p" >>)}, database : {Str(<< "D" >>)},
       databaseType : {HANA, MSSQL, POSTGRES}, poolSettings : PoolSettingsSet,
       timeout : {NoTimeout}] :
      params.databaseType = MSSQL => params.poolSettings = NoSettings }

\* No disconnect call and no query/procedure call was issued yet.
NoDisconnect ==
  /\ dpc = [d \in D |-> "idle"] /\ dtarget = [d \in D |-> NoRef]
  /\ dres = [d \in D |-> NoErr]
NoQuery ==
  /\ qpc = [q \in Q |-> "idle"] /\ qtarget = [q \in Q |-> NoRef]
  /\ qheld = [q \in Q |-> NoRef] /\ qrel = [q \in Q |-> 0]
  /\ qres = [q \in Q |-> "none"]
  /\ qcall = [q \in Q |-> NoCall] /\ qgen = [q \in Q |-> Undef]
  /\ qprep = [q \in Q |-> NoCall] /\ qsent = [q \in Q |-> NoCall]

InitCalls ==
  /\ pool = NoRef /\ pgPool = NoRef /\ mssql = NoRef /\ mssqlConnect = NoRef
  /\ pools = [p \in PoolId |-> NoPool] /\ npools = 0
  /\ ires = NoErr
  /\ ccall = [c \in C |-> NoCall] /\ cpc = [c \in C |-> "idle"]
  /\ cprobe = [c \in C |-> NoRef] /\ cres = [c \in C |-> NoErr]
  /\ NoDisconnect
  /\ NoQuery
  /\ everConnected = FALSE /\ cd = "none" /\ rounds = 0

\* Fields of an instance of the multi-backend class before its first connect
\* (the class has no constructor: every field is undefined).
FieldsUndefined ==
  /\ server = Undef /\ username = Undef /\ password = Undef /\ database = Undef
  /\ poolSettings = NoSettings /\ databaseType = Undef
  /\ timeout = NoTimeout
  /\ isHana = FALSE /\ isPostgres = FALSE

\* Fields after new Database(params) of the single-backend class.
FieldsConstructed(params) ==
  /\ server = params.server /\ username = params.username
  /\ password = params.password
  /\ database = (IF Truthy(params.database) THEN params.database ELSE << >>)
  /\ poolSettings = params.poolSettings /\ databaseType = Undef
  /\ timeout = Timeout(params.timeout)
  /\ isHana = FALSE /\ isPostgres = FALSE

\* The text and the parameters the modelled load passes: the lifecycle of
\* a call does not depend on them.
MainTexts == {<< "x" >>}
MainNames == {<< "S" >>}
MainArgs == {<< >>}

Init ==
  /\ cls \in {"single", "multi"}
  /\ inst = "ok"
  /\ IF cls = "single"
     THEN \E params \in MainParams : FieldsConstructed(params)
     ELSE FieldsUndefined
  /\ InitCalls

\* The load issues MaxCalls calls in all.
CallsIssued ==
  Cardinality({c \in C : cpc[c] # "idle"}) + Cardinality({d \in D : dpc[d] # "idle"})
  + Cardinality({q \in Q : qpc[q] # "idle"})
Budget == CallsIssued < MaxCalls

Next ==
  \/ \E c \in C : Budget /\ connect(c)
  \/ \E c \in C : connect_probeResolved(c)
  \/ \E c \in C : connect_probeRejected(c)
  \/ \E c \in C : connect_return(c)
  \/ \E c \in C : connect_rejected(c)
  \/ \E q \in Q, text \in MainTexts, parameters \in MainArgs :
       Budget /\ query(q, text, parameters)
  \/ \E q \in Q, name \in MainNames, parameters \in MainArgs :
       Budget /\ procedure(q, name, parameters)
  \/ \E d \in D : Budget /\ disconnect(d)
  \/ \E d \in D, err \in BOOLEAN : disconnect_drained(d, err)
  \/ \E d \in D, err \in BOOLEAN : disconnect_cleared(d, err)
  \/ \E q \in Q, throws \in BOOLEAN : query_acquired(q, throws)
  \/ \E q \in Q : query_acquireRejected(q)
  \/ \E q \in Q, err \in BOOLEAN : query_execCallback(q, err)
  \/ \E c \in C, params \in MainParams : Budget /\ connectM(c, params)
  \/ \E c \in C : connectM_return(c)
  \/ \E c \in C : connectM_rejected(c)
  \/ \E c \in C, err \in BOOLEAN : setConnDbSql_callback(c, err)
  \/ \E p \in PoolId, err \in BOOLEAN : mssqlConnect_settles(p, err)
  \/ \E q \in Q, text \in MainTexts, parameters \in MainArgs :
       Budget /\ executeQuery(q, text, parameters)
  \/ \E q \in Q, name \in MainNames, parameters \in MainArgs :
       Budget /\ executeProcedure(q, name, parameters)
  \/ \E q \in Q : executeQuery_pgConnected(q)
  \/ \E q \in Q, err \in BOOLEAN : executeQuery_pgSettled(q, err)
  \/ \E q \in Q : executeQuery_mssqlAwaited(q)
  \/ \E q \in Q, err \in BOOLEAN : executeQuery_mssqlSettled(q, err)
  \/ \E d \in D : Budget /\ disconnectM(d)
  \/ \E d \in D, err \in BOOLEAN : disconnectM_drained(d, err)
  \/ \E d \in D, err \in BOOLEAN : disconnectM_cleared(d, err)
  \/ \E d \in D, err \in BOOLEAN : disconnectM_ended(d, err)
  \/ \E d \in D : disconnectM_endRefused(d)
  \/ \E d \in D : disconnectM_awaited(d)
  \/ \E d \in D, err \in BOOLEAN : disconnectM_closed(d, err)

Spec == Init /\ [][Next]_vars

\* The load of procedure calls: every call enters through procedure /
\* executeProcedure, which build a text and hand it to query / executeQuery
\* (lines 158, 461), so that both methods run on every call; connect and
\* disconnect as in Next.
NextProcedures ==
  \/ \E c \in C : Budget /\ connect(c)
  \/ \E c \in C : connect_probeResolved(c)
  \/ \E c \in C : connect_probeRejected(c)
  \/ \E c \in C : connect_return(c)
  \/ \E c \in C : connect_rejected(c)
  \/ \E q \in Q, name \in MainNames, parameters \in MainArgs :
       Budget /\ procedure(q, name, parameters)
  \/ \E d \in D : Budget /\ disconnect(d)
  \/ \E d \in D, err \in BOOLEAN : disconnect_drained(d, err)
  \/ \E d \in D, err \in BOOLEAN : disconnect_cleared(d, err)
  \/ \E q \in Q, throws \in BOOLEAN : query_acquired(q, throws)
  \/ \E q \in Q : query_acquireRejected(q)
  \/ \E q \in Q, err \in BOOLEAN : query_execCallback(q, err)
  \/ \E c \in C, params \in MainParams : Budget /\ connectM(c, params)
  \/ \E c \in C : connectM_return(c)
  \/ \E c \in C : connectM_rejected(c)
  \/ \E c \in C, err \in BOOLEAN : setConnDbSql_callback(c, err)
  \/ \E p \in PoolId, err \in BOOLEAN : mssqlConnect_settles(p, err)
  \/ \E q \in Q, name \in MainNames, parameters \in MainArgs :
       Budget /\ executeProcedure(q, name, parameters)
  \/ \E q \in Q : executeQuery_pgConnected(q)
  \/ \E q \in Q, err \in BOOLEAN : executeQuery_pgSettled(q, err)
  \/ \E q \in Q : executeQuery_mssqlAwaited(q)
  \/ \E q \in Q, err \in BOOLEAN : executeQuery_mssqlSettled(q, err)
  \/ \E d \in D : Budget /\ disconnectM(d)
  \/ \E d \in D, err \in BOOLEAN : disconnectM_drained(d, err)
  \/ \E d \in D, err \in BOOLEAN : disconnectM_cleared(d, err)
  \/ \E d \in D, err \in BOOLEAN : disconnectM_ended(d, err)
  \/ \E d \in D : disconnectM_endRefused(d)
  \/ \E d \in D : disconnectM_awaited(d)
  \/ \E d \in D, err \in BOOLEAN : disconnectM_closed(d, err)

SpecProcedures == Init /\ [][NextProcedures]_vars

\* ------------------------------------------------ the text specification
RECURSIVE SeqsUpTo(_, _)
SeqsUpTo(S, n) ==
  IF n = 0 THEN {<< >>}
  ELSE LET R == SeqsUpTo(S, n - 1) IN
       R \cup {Append(r, x) : r \in {t \in R : Len(t) = n - 1}, x \in S}

TextTokens == {DbToken, << "?" >>, << "x" >>, << "{" >>}
Texts == {Flatten(ts) : ts \in SeqsUpTo(TextTokens, MaxText)}
Names == SeqsUpTo({"S", "?"}, MaxName)
ParameterLists == SeqsUpTo({"a", "b"}, MaxArgs)
DbNames == {Undef, << >>, << " " >>, << "S" >>, << "$", "&" >>, << "$", "$" >>,
            << "?" >>}

\* The spellings of the three backend kinds a caller passes.
TextTypes ==
  {HANA, MSSQL, POSTGRES, Str(<< "h", "a", "n", "a" >>),
   Str(<< "m", "s", "s", "q", "l" >>),
   Str(<< "p", "o", "s", "t", "g", "r", "e", "s" >>)}

TextParams ==
  [server : {Str(<< "h" >>)}, username : {Str(<< "u" >>)},
   password : {Str(<< "p" >>)}, database : DbNames,
   databaseType : TextTypes, poolSettings : {NoSettings},
   timeout : {NoTimeout}]

\* The instance after connect() resolved on the single-backend class.
ConnectedSingle(params) ==
  /\ FieldsConstructed(params)
  /\ pool = 1 /\ pgPool = NoRef /\ mssql = NoRef /\ mssqlConnect = NoRef
  /\ pools = [p \in PoolId |->
               IF p = 1
               THEN [NewPool("HANA", HanaPoolOptions(params.poolSettings)["max"])
                       EXCEPT !.opts = HanaPoolOptions(params.poolSettings)]
               ELSE NoPool]

\* The instance after connect(params) resolved on the multi-backend class:
\* the fields of lines 232-240 and the pool of the backend.  connect does not
\* wait for the promise stored at line 335: it is pending, or has settled
\* either way.
ConnectedMulti(params) ==
  LET databaseTypeStr == toUpperCase(params.databaseType) IN
  /\ server = params.server /\ username = params.username
  /\ password = params.password /\ database = params.database
  /\ poolSettings = params.poolSettings
  /\ timeout = Timeout(params.timeout)
  /\ databaseType = databaseTypeStr
  /\ isHana = (databaseTypeStr = HANA)
  /\ isPostgres = (databaseTypeStr = POSTGRES)
  /\ pool = (IF databaseTypeStr = HANA THEN 1 ELSE NoRef)
  /\ pgPool = (IF databaseTypeStr = POSTGRES THEN 1 ELSE NoRef)
  /\ mssql = (IF databaseTypeStr = MSSQL THEN 1 ELSE NoRef)
  /\ mssqlConnect = (IF databaseTypeStr = MSSQL THEN 1 ELSE NoRef)
  /\ \E settled \in {"pending", "ok", "err"} :
       pools = [p \in PoolId |->
                 IF p # 1 THEN NoPool
                 ELSE IF databaseTypeStr = HANA
                   THEN [NewPool("HANA", HanaPoolOptions(params.poolSettings)["max"])
                           EXCEPT !.opts = HanaPoolOptions(params.poolSettings)]
                 ELSE IF databaseTypeStr = POSTGRES
                   THEN [NewPool("PG", PgMax(params.poolSettings))
                           EXCEPT !.opts = PgPoolOptions(params.poolSettings,
                                                         Timeout(params.timeout))]
                 ELSE [NewPool("MSSQL", 0) EXCEPT !.conn = settled]]

\* The connect call that resolved is call 1; no other call was issued.
InitText ==
  /\ cls \in {"single", "multi"}
  /\ inst = "ok" /\ ires = NoErr
  /\ \E params \in TextParams :
       /\ IF cls = "single" THEN ConnectedSingle(params) ELSE ConnectedMulti(params)
       /\ ccall = [c \in C |->
                     IF c # 1 THEN NoCall
                     ELSE IF cls = "single" THEN [op |-> "connect"]
                     ELSE [op |-> "connect", databaseType |-> params.databaseType]]
  /\ npools = 1
  /\ cpc = [c \in C |-> IF c = 1 THEN "done" ELSE "idle"]
  /\ cprobe = [c \in C |-> IF c = 1 THEN 1 ELSE NoRef]
  /\ cres = [c \in C |-> IF c = 1 THEN Ok ELSE NoErr]
  /\ NoDisconnect
  /\ NoQuery
  /\ everConnected = TRUE /\ cd = "connected" /\ rounds = 0

\* The text of a call does not depend on earlier calls: one call is issued
\* per behaviour and followed until the driver has its text or the call is
\* rejected.
NoCallYet == \A q \in Q : qpc[q] = "idle"

NextText ==
  \/ /\ NoCallYet
     /\ \E q \in Q, text \in Texts, parameters \in ParameterLists :
          query(q, text, parameters)
  \/ /\ NoCallYet
     /\ \E q \in Q, name \in Names, parameters \in ParameterLists :
          procedure(q, name, parameters)
  \/ /\ NoCallYet
     /\ \E q \in Q, text \in Texts, parameters \in ParameterLists :
          executeQuery(q, text, parameters)
  \/ /\ NoCallYet
     /\ \E q \in Q, name \in Names, parameters \in ParameterLists :
          executeProcedure(q, name, parameters)
  \/ \E q \in Q, throws \in BOOLEAN : query_acquired(q, throws)
  \/ \E q \in Q : query_acquireRejected(q)
  \/ \E q \in Q : executeQuery_pgConnected(q)
  \/ \E p \in PoolId, err \in BOOLEAN : mssqlConnect_settles(p, err)
  \/ \E q \in Q : executeQuery_mssqlAwaited(q)

SpecText == InitText /\ [][NextText]_vars

\* ------------------------------------------ the parameter specification
CredValues == {Undef, << >>, << " " >>, Str(<< "h" >>), Str(<< " ", "h" >>)}
TypeStrings ==
  {HANA, MSSQL, POSTGRES,
   Str(<< "h", "a", "n", "a" >>), Str(<< "H", "a", "n", "a" >>),
   Str(<< "m", "s", "s", "q", "l" >>),
   Str(<< "p", "o", "s", "t", "g", "r", "e", "s" >>),
   Str(<< "O", "R", "A", "C", "L", "E" >>), Str(<< "o", "r", "a", "c", "l", "e" >>),
   << >>, Str(<< "H", "A", "N", "A", " " >>)}

\* Every backend kind spelling with credentials of which at most one is not
\* the plain value.
AllParams ==
  {params \in [server : CredValues, username : CredValues, password : CredValues,
               database : {Str(<< "D" >>)}, databaseType : TypeStrings,
               poolSettings : {NoSettings}, timeout : {NoTimeout}] :
     Cardinality({f \in {"server", "username", "password"} :
                    params[f] # Str(<< "h" >>)}) <= 1}

InitParams ==
  /\ cls \in {"single", "multi"}
  /\ inst = (IF cls = "single" THEN "none" ELSE "ok")
  /\ FieldsUndefined
  /\ InitCalls

NextParams ==
  \/ \E params \in AllParams : constructor(params)
  \/ \E c \in C : connect(c)
  \/ \E c \in C : connect_probeResolved(c)
  \/ \E c \in C : connect_probeRejected(c)
  \/ \E c \in C : connect_return(c)
  \/ \E c \in C : connect_rejected(c)
  \/ \E c \in C, params \in AllParams : connectM(c, params)
  \/ \E c \in C : connectM_rejected(c)
  \/ \E c \in C : connectM_return(c)
  \/ \E c \in C, err \in BOOLEAN : setConnDbSql_callback(c, err)

SpecParams == InitParams /\ [][NextParams]_vars

\* ------------------------------------------ the pool settings specification
\* Pool settings over the two named keys of PoolSettings and one key of its
\* index signature (types.ts lines 17-21).
SettingKeys == {"max", "min", "idleTimeoutMillis"}
SettingValues == {1, 2}
AllSettings ==
  UNION { [keys -> SettingValues] : keys \in SUBSET SettingKeys }

\* The timeout is not given, or is a value other than the default.
TimeoutValues == {NoTimeout, 300000}

\* A timeout is given with no pool setting, or with the one the native pool
\* of the open-relational backend derives from it.
SettingsParams ==
  { params \in
      [server : {Str(<< "h" >>)}, username : {Str(<< "u" >>)},
       password : {Str(<< "p" >>)}, database : {Str(<< "D" >>)},
       databaseType : {HANA, POSTGRES}, poolSettings : AllSettings,
       timeout : TimeoutValues] :
      params.timeout # NoTimeout =>
        DOMAIN params.poolSettings \subseteq {"idleTimeoutMillis"} }

InitSettings ==
  /\ cls \in {"single", "multi"}
  /\ inst = "ok"
  /\ IF cls = "single"
     THEN \E params \in SettingsParams :
            params.databaseType = HANA /\ FieldsConstructed(params)
     ELSE FieldsUndefined
  /\ InitCalls

NextSettings ==
  \/ \E c \in C : connect(c)
  \/ \E c \in C : connect_probeResolved(c)
  \/ \E c \in C : connect_probeRejected(c)
  \/ \E c \in C : connect_return(c)
  \/ \E c \in C : connect_rejected(c)
  \/ \E c \in C, params \in SettingsParams : connectM(c, params)
  \/ \E c \in C : connectM_return(c)

SpecSettings == InitSettings /\ [][NextSettings]_vars

\* ------------------------------------------- the liveness specification
\* A continuation that can resume does (the settlement of connect), and the
\* environment of the columnar backend keeps its promises: a pool with
\* room serves every waiting acquire (the probe of connect included), the
\* driver calls back for every exec it started, and drain() and clear()
\* resolve once their conditions hold.
Fairness ==
  /\ \A q \in Q : SF_vars(\E throws \in BOOLEAN : query_acquired(q, throws))
  /\ \A q \in Q : WF_vars(\E err \in BOOLEAN : query_execCallback(q, err))
  /\ \A c \in C : SF_vars(connect_probeResolved(c))
  /\ \A c \in C : WF_vars(connect_return(c)) /\ WF_vars(connect_rejected(c))
  /\ \A c \in C : WF_vars(connectM_return(c)) /\ WF_vars(connectM_rejected(c))
  /\ \A d \in D : /\ WF_vars(disconnect_drained(d, FALSE))
                   /\ WF_vars(disconnect_cleared(d, FALSE))
  /\ \A d \in D : /\ WF_vars(disconnectM_drained(d, FALSE))
                   /\ WF_vars(disconnectM_cleared(d, FALSE))

SpecLive == Init /\ [][Next]_vars /\ Fairness

\* ============================================================== claims ==
\* A query/procedure (executeQuery/executeProcedure) call is issued.
Issued(q) == qpc[q] = "idle" /\ qpc'[q] # "idle"
FailsNotConnected(q) == qpc'[q] = "done" /\ qres'[q] = "NotConnected"

\* The pool, native pool or handle the connected backend works on.
ActiveRef == IF cls = "single" \/ isHana THEN pool
             ELSE IF isPostgres THEN pgPool ELSE mssql

\* C1: on an instance on which no connect has ever succeeded (and none is in
\* flight), every query/procedure/executeQuery/executeProcedure call fails
\* with NotConnected and reaches no pool acquire and no driver call.
NoConnectInFlight == \A c \in C : ~ConnectInFlight(c)

C1_NeverConnectedFailsNotConnected ==
  [][\A q \in Q :
       (Issued(q) /\ ~everConnected /\ NoConnectInFlight) => FailsNotConnected(q)]_vars

\* C2: after a connect that resolved followed by a disconnect that resolved,
\* the next query/procedure call fails with NotConnected.
C2_DisconnectThenQueryFailsNotConnected ==
  [][\A q \in Q : (Issued(q) /\ cd = "disconnected") => FailsNotConnected(q)]_vars

\* C3: after any number of connect ; disconnect sequences, a connect that
\* resolves has built a new pool which the instance references and which was
\* never drained or closed, and every call issued from then on is dispatched
\* to that pool.
C3_RoundTripUsesFreshPool ==
  [][/\ cd' = "connected" =>
          /\ ActiveRef' = npools'
          /\ pools'[npools'].st = "live"
     /\ \A q \in Q :
          /\ (Issued(q) /\ cd = "connected") =>
               /\ qpc'[q] \in {"waiting", "await_connect"}
               /\ qtarget'[q] = npools
               /\ pools[npools].st = "live"
          /\ (cd = "connected" /\ qpc[q] = "await_connect"
                /\ qtarget[q] = npools /\ qpc'[q] = "request") =>
               /\ qtarget'[q] = npools
               /\ pools[npools].st = "live"]_vars

C3_Witness ==
  /\ cd = "connected" /\ rounds >= 1
  /\ \E q \in Q : qpc[q] = "exec" /\ qheld[q] = npools

\* C4: on the columnar and open-relational backends, a call that acquired a
\* session and has settled has released it exactly once and holds none.
C4_SessionReleasedOnEveryPath ==
  \A q \in Q :
    (/\ qpc[q] = "done" /\ qres[q] \in {"ok", "QueryError"}
     /\ pools[qtarget[q]].kind \in {"HANA", "PG"})
    => (qheld[q] = NoRef /\ qrel[q] = 1)

\* The max the caller asked for: poolSettings.max, or 10.
RequestedMax(ps) == IF "max" \in DOMAIN ps THEN ps["max"] ELSE DefaultPoolMax

\* C5: the sessions checked out of the columnar pool never exceed the
\* effective max (poolSettings.max, else 10), whatever the interleaving.
C5_CheckedOutWithinMax ==
  \A p \in PoolId :
    (pools[p].kind = "HANA" /\ (cls = "single" \/ (isHana /\ p = pool)))
    => pools[p].out <= RequestedMax(poolSettings)

C5_Witness ==
  \E p \in PoolId :
    /\ pools[p].kind = "HANA" /\ (cls = "single" \/ (isHana /\ p = pool))
    /\ pools[p].out = RequestedMax(poolSettings)
    /\ Waiters(p) # {}
    /\ \E q \in Q : qpc[q] = "exec" /\ qheld[q] = p

\* A value that is missing, empty or whitespace-only.
IsBlankValue(v) == v = Undef \/ \A i \in 1..Len(v) : v[i] = " "

\* C6: no pool or driver object exists for an instance whose server,
\* username or password is missing, empty or whitespace-only.
C6_NoPoolForBlankCredentials ==
  (npools > 0 \/ (cls = "single" /\ inst = "ok"))
  => ~IsBlankValue(server) /\ ~IsBlankValue(username) /\ ~IsBlankValue(password)

\* The backend kind a spelling stands for (<< >>: none).
KindOfSpelling(t) ==
  CASE t \in {HANA, Str(<< "h", "a", "n", "a" >>), Str(<< "H", "a", "n", "a" >>)}
         -> HANA
    [] t \in {MSSQL, Str(<< "m", "s", "s", "q", "l" >>)} -> MSSQL
    [] t \in {POSTGRES, Str(<< "p", "o", "s", "t", "g", "r", "e", "s" >>)}
         -> POSTGRES
    [] OTHER -> << >>

UpperSpelling(t) ==
  IF t = Str(<< "o", "r", "a", "c", "l", "e" >>)
  THEN Str(<< "O", "R", "A", "C", "L", "E" >>) ELSE t

\* C7: connect(params) of the multi-backend class accepts databaseType
\* exactly when its uppercase form is HANA, MSSQL or POSTGRES and stores that
\* form; otherwise it fails with an error carrying the value (in uppercase)
\* and the three kinds, and changes no field and creates no pool.
C7_DatabaseTypeValidation ==
  [][\A c \in C :
       (cls = "multi" /\ cpc[c] = "idle" /\ cpc'[c] # "idle") =>
         LET t == ccall'[c].databaseType IN
         IF KindOfSpelling(t) # << >>
         THEN /\ cres'[c].kind # "InvalidType"
              /\ databaseType' = KindOfSpelling(t)
              /\ server' # Undef => (cpc'[c] # "reject" /\ npools' = npools + 1)
         ELSE /\ cpc'[c] = "done"
              /\ cres'[c] = [kind |-> "InvalidType", value |-> UpperSpelling(t),
                             supported |-> << HANA, MSSQL, POSTGRES >>]
              /\ UNCHANGED << fields, refs, pools, npools >>]_vars

C7_Witness ==
  /\ cls = "multi" /\ databaseType = POSTGRES /\ npools = 1
  /\ \E c \in C :
       /\ cpc[c] = "done" /\ cres[c].kind = "InvalidType"
       /\ ccall[c].databaseType = Str(<< "o", "r", "a", "c", "l", "e" >>)

\* Literal substitution of every {db} by name, left to right.
RECURSIVE LiteralSubstitute(_, _)
LiteralSubstitute(s, name) ==
  IF Len(s) < 4 THEN s
  ELSE IF SubSeq(s, 1, 4) = << "{", "d", "b", "}" >>
  THEN name \o LiteralSubstitute(SubSeq(s, 5, Len(s)), name)
  ELSE << Head(s) >> \o LiteralSubstitute(Tail(s), name)

\* C8: the text dispatched by query/executeQuery is the input with every
\* {db} replaced by the database name, and the input itself when the name is
\* absent or blank.
C8_DbTokenSubstitution ==
  \A q \in Q :
    (qcall[q].op = "query" /\ qsent[q] # NoCall) =>
      qsent[q].q = IF IsBlankValue(database) THEN qcall[q].text
                   ELSE LiteralSubstitute(qcall[q].text, database)

Count(s, c) == Cardinality({i \in 1..Len(s) : s[i] = c})

\* The text with its i-th ? (from index i on) replaced by @<prefix><i>.
RECURSIVE Named(_, _, _)
Named(s, i, prefix) ==
  IF s = << >> THEN << >>
  ELSE IF Head(s) = "?"
  THEN << "@" >> \o prefix \o Decimal(i) \o Named(Tail(s), i + 1, prefix)
  ELSE << Head(s) >> \o Named(Tail(s), i, prefix)

\* An executeQuery call on the relational-server backend that reached the
\* driver and whose text (after {db} substitution) has as many ? as there are
\* parameters, at least one.
MssqlMatchedCall(q) ==
  /\ cls = "multi" /\ ~isHana /\ ~isPostgres
  /\ qcall[q].op = "query" /\ qsent[q] # NoCall
  /\ Len(qcall[q].parameters) >= 1
  /\ Count(qsent[q].q, "?") = Len(qcall[q].parameters)

Rewritten(q, prefix) ==
  /\ qsent[q].via = "req.query"
  /\ qsent[q].text = Named(qsent[q].q, 0, prefix)
  /\ Count(qsent[q].text, "?") = 0
  /\ Len(qsent[q].inputs) = Len(qcall[q].parameters)
  /\ \A j \in 1..Len(qcall[q].parameters) :
       qsent[q].inputs[j] = << prefix \o Decimal(j - 1), qcall[q].parameters[j] >>
  /\ \A j, k \in 1..Len(qsent[q].inputs) :
       j # k => qsent[q].inputs[j][1] # qsent[q].inputs[k][1]

\* C9 (as stated): the i-th ? becomes the bound-parameter name param<i>,
\* bound to the i-th value.
C9_RewriteToParamN ==
  \A q \in Q : MssqlMatchedCall(q) => Rewritten(q, Str(<< "p", "a", "r", "a", "m" >>))

\* C9 (amended): the i-th ? becomes @mssqlboundparm<i>, no ? is left, the k
\* names are distinct, nothing else changes, and the request binds
\* mssqlboundparm<i> to the i-th value.
C9_RewriteToBoundParm ==
  \A q \in Q :
    MssqlMatchedCall(q) =>
      Rewritten(q, Str(<< "m", "s", "s", "q", "l", "b", "o", "u", "n", "d",
                          "p", "a", "r", "m" >>))

C9_Witness ==
  \E q \in Q :
    /\ MssqlMatchedCall(q) /\ qpc[q] = "request"
    /\ Len(qcall[q].parameters) = 2 /\ Len(qsent[q].q) > 2

\* n marks joined by commas
RECURSIVE Marks(_)
Marks(n) == IF n = 0 THEN << >>
            ELSE IF n = 1 THEN << "?" >> ELSE << "?", "," >> \o Marks(n - 1)

Quoted(name) == << "\"" >> \o name \o << "\"" >>
CallKw == Str(<< "C", "A", "L", "L", " " >>)
SelectKw == Str(<< "S", "E", "L", "E", "C", "T", " ", "*", " ", "F", "R", "O", "M", " " >>)
ExecKw == Str(<< "E", "X", "E", "C", " " >>)

\* The text of a procedure call; prefixed says whether the columnar form
\* carries the {db}. prefix.
ProcedureText(name, n, prefixed) ==
  IF cls = "single" \/ isHana
  THEN CallKw \o (IF prefixed THEN << "{", "d", "b", "}", "." >> ELSE << >>)
       \o Quoted(name) \o << "(" >> \o Marks(n) \o << ")" >>
  ELSE IF isPostgres
  THEN SelectKw \o name \o << "(" >> \o Marks(n) \o << ")" >>
  ELSE ExecKw \o Quoted(name) \o << " " >> \o Marks(n)

\* A procedure/executeProcedure call that passed the guards and delegated.
Delegated(q) == qcall[q].op = "procedure" /\ qprep[q] # NoCall

\* C10 (as stated): procedure delegates to query with the same parameters
\* and the text CALL {db}."N"(P) / SELECT * FROM N(P) / EXEC "N" P, whose
\* number of ? is the number of parameters.
C10_ProcedureText ==
  \A q \in Q :
    Delegated(q) =>
      /\ qgen[q] = ProcedureText(qcall[q].name, Len(qcall[q].parameters), TRUE)
      /\ qprep[q].input = qgen[q] /\ qprep[q].args = qcall[q].parameters
      /\ Count(qgen[q], "?") = Len(qcall[q].parameters)

\* C10 (amended): as stated, except that the single-backend class omits the
\* {db}. prefix when its database is empty, and that the ? of the generated
\* text are those of P (one per parameter) plus those of the name itself.
C10_ProcedureTextAmended ==
  \A q \in Q :
    Delegated(q) =>
      /\ qgen[q] = ProcedureText(qcall[q].name, Len(qcall[q].parameters),
                                 cls = "multi" \/ database # << >>)
      /\ qprep[q].input = qgen[q] /\ qprep[q].args = qcall[q].parameters
      /\ Count(qgen[q], "?") =
           Len(qcall[q].parameters) + Count(qcall[q].name, "?")

C10_Witness ==
  \E q \in Q :
    /\ Delegated(q) /\ qsent[q] = qprep[q] /\ Len(qcall[q].parameters) = 2
    /\ cls = "single" /\ database = << >> /\ qcall[q].name = << "S" >>

\* The instance works on the columnar backend.
Columnar == cls = "single" \/ isHana

\* C11: on the columnar backend (both classes) a connect call resolves only
\* out of its probe, one acquire on the pool it built that obtained a session
\* which is released at once; a probe that fails makes connect fail with a
\* ConnectionError.
C11_ConnectProbesNewPool ==
  [][\A c \in C :
       /\ (Columnar' /\ ConnectInFlight(c) /\ cpc'[c] = "done" /\ cres'[c] = Ok) =>
            cpc[c] = "return"
       /\ (Columnar' /\ cpc[c] # "return" /\ cpc'[c] = "return") =>
            /\ cpc[c] = "probe"
            /\ pools[cprobe[c]].kind = "HANA" /\ HasRoom(cprobe[c])
            /\ pools'[cprobe[c]].out = pools[cprobe[c]].out
       /\ (Columnar' /\ cpc[c] = "probe" /\ cpc'[c] # "probe") =>
            \/ cpc'[c] = "return"
            \/ cpc'[c] = "reject" /\ cres'[c] = ConnectionError
       /\ (Columnar' /\ cpc[c] = "reject" /\ cpc'[c] # "reject") =>
            cpc'[c] = "done" /\ cres'[c] = ConnectionError]_vars

\* The columnar pools built from the pool settings the instance now stores.
BuiltFromSettings(p) ==
  pools[p].kind = "HANA" /\ (cls = "single" \/ (isHana /\ p = pool))

\* C12: the options of the columnar pool are the defaults {max: 10, min: 5}
\* shallowly overridden by poolSettings: the caller's value for every key of
\* poolSettings, the default for every default key poolSettings lacks, no
\* other key; exactly {max: 10, min: 5} without poolSettings.
C12_EffectivePoolOptions ==
  \A p \in PoolId :
    BuiltFromSettings(p) =>
      LET opts == pools[p].opts IN
      /\ DOMAIN opts = {"max", "min"} \cup DOMAIN poolSettings
      /\ \A k \in DOMAIN poolSettings : opts[k] = poolSettings[k]
      /\ "max" \notin DOMAIN poolSettings => opts["max"] = 10
      /\ "min" \notin DOMAIN poolSettings => opts["min"] = 5
      /\ poolSettings = NoSettings =>
           opts = [k \in {"max", "min"} |-> IF k = "max" THEN 10 ELSE 5]
      /\ pools[p].max = opts["max"]

C12_Witness ==
  \E p \in PoolId :
    /\ BuiltFromSettings(p)
    /\ \E c \in C : cpc[c] = "done" /\ cres[c] = Ok /\ cprobe[c] = p
    /\ DOMAIN poolSettings = {"max", "idleTimeoutMillis"}
    /\ pools[p].opts["max"] = 2 /\ pools[p].opts["min"] = 5
    /\ pools[p].opts["idleTimeoutMillis"] = 1

\* C13: every pool that was created and not yet drained, ended or closed is
\* the pool the instance references, so at most one such pool exists; a
\* connect on a connected instance leaves no earlier pool live.
C13_AtMostOneLivePool ==
  \A p \in PoolId : pools[p].st = "live" => p = ActiveRef

\* Connect call c, in flight, rejects with a ConnectionError.
ConnectFails(c) ==
  ConnectInFlight(c) /\ cpc'[c] = "done" /\ cres'[c] = ConnectionError

\* The last connect call issued has rejected with a ConnectionError.
LastConnectFailed ==
  \E c \in C :
    /\ cpc[c] = "done" /\ cres[c] = ConnectionError
    /\ \A r \in C : r > c => cpc[r] = "idle"

\* C14: when connect rejects with a ConnectionError, no pool reference and
\* no backend flag remains on the instance, and a query/procedure call issued
\* after that rejection fails with NotConnected.
C14_FailedConnectLeavesUnconnected ==
  [][/\ (\E c \in C : ConnectFails(c)) =>
          /\ pool' = NoRef /\ pgPool' = NoRef /\ mssql' = NoRef
          /\ mssqlConnect' = NoRef /\ ~isHana' /\ ~isPostgres'
     /\ \A q \in Q :
          (Issued(q) /\ NoConnectInFlight /\ LastConnectFailed)
            => FailsNotConnected(q)]_vars

\* Disconnect call d rejects.
DisconnectFails(d) ==
  dres'[d].kind = "DisconnectionError" /\ dres[d].kind # "DisconnectionError"

\* The reference disconnect works on for the backend of the instance.
DisconnectRef == IF Columnar THEN pool
                 ELSE IF isPostgres THEN pgPool ELSE mssqlConnect

\* The last disconnect call issued before call d has rejected.
RetryOfFailed(d) ==
  /\ d > 1 /\ dpc[d - 1] = "done" /\ dres[d - 1].kind = "DisconnectionError"
  /\ LifecycleQuiet

\* The message of what made a disconnect call at position pc fail.
CauseOfFailure(pc, ref) ==
  CASE pc = "drain" -> IF cls = "single" /\ ref = NoRef
                       THEN {"TypeError", "DrainError"} ELSE {"DrainError"}
    [] pc = "clear" -> {"ClearError"}
    [] pc = "end" -> {"EndError"}
    [] pc = "end_refused" -> {"EndCalledTwice"}
    [] pc = "await_connect" -> {"ConnectError"}
    [] pc = "close" -> {"CloseError"}
    [] OTHER -> {}

\* C15: a disconnect that fails rejects with a DisconnectionError carrying
\* the message of its cause and changes no field, no reference and no pool,
\* and the instance stays connected: it still references a pool, and a
\* disconnect called again is in flight on that pool.
C15_FailedDisconnectKeepsReference ==
  [][\A d \in D :
       /\ DisconnectFails(d) =>
            /\ dres'[d].message \in CauseOfFailure(dpc[d], pool)
            /\ UNCHANGED << fields, refs, pools, npools >>
            /\ dpc'[d] = "done"
            /\ DisconnectRef' # NoRef
       /\ (dpc[d] = "idle" /\ dpc'[d] # "idle" /\ RetryOfFailed(d)) =>
            /\ DisconnectInFlight(d)'
            /\ dtarget'[d] = DisconnectRef /\ dtarget'[d] # NoRef]_vars

\* C16: when the driver calls back (or the native query settles) for a call
\* that holds a session, the session goes back to the pool it was acquired
\* from: the call settles, holds nothing, and that pool has one session less
\* checked out, whatever connect and disconnect did in the meantime.
C16_ReleasedToOwnPool ==
  [][\A q \in Q :
       (qpc[q] = "exec" /\ qpc'[q] # "exec") =>
         /\ qpc'[q] = "done"
         /\ qheld'[q] = NoRef
         /\ pools'[qheld[q]].out = pools[qheld[q]].out - 1]_vars

\* C17: when a disconnect call on the columnar backend resolves, every pool
\* it drained or cleared has no session checked out and no call executing on
\* one of its sessions: drain waited for the calls in flight before clear
\* and before the reference was cleared.
C17_DisconnectAfterSessionsReturned ==
  [][\A d \in D :
       (Columnar /\ dpc[d] = "clear" /\ dpc'[d] = "done" /\ dres'[d] = Ok) =>
         \A p \in PoolId :
           (pools[p].kind = "HANA" /\ (p = dtarget[d] \/ pools[p].st = "draining")) =>
             /\ pools[p].out = 0
             /\ \A q \in Q : ~(qpc[q] = "exec" /\ qheld[q] = p)]_vars

\* The instance works on the relational-server backend.
Mssql == cls = "multi" /\ databaseType = MSSQL

\* C18: on the MSSQL backend connect resolves while the stored connect
\* operation is still pending; an executeQuery that passes the guards awaits
\* that operation; a request is issued only after the awaited operation
\* completed and only to a native pool whose connect has completed; when the
\* operation failed the call fails with its error and issues no request.
C18_RequestsAwaitStoredConnect ==
  [][/\ \A c \in C :
          /\ (Mssql /\ cpc[c] = "ctor" /\ cpc'[c] = "return") =>
               /\ mssqlConnect' = mssql
               /\ pools'[mssqlConnect'].conn =
                    (IF pools[mssql].conn = "none" THEN "pending"
                     ELSE pools[mssql].conn)
          /\ (Mssql /\ ConnectInFlight(c) /\ cpc'[c] = "done" /\ cres'[c] = Ok) =>
               /\ cpc[c] = "return"
               /\ UNCHANGED << refs, pools >>
     /\ \A q \in Q :
          /\ (Mssql /\ Issued(q)) =>
               \/ qpc'[q] = "done" /\ qres'[q] = "NotInitialized"
               \/ /\ qpc'[q] = "await_connect" /\ qtarget'[q] = mssqlConnect
                  /\ mssqlConnect # NoRef
          /\ (qpc'[q] = "request" /\ qpc[q] # "request") =>
               /\ qpc[q] = "await_connect"
               /\ pools[qtarget[q]].conn = "ok"
               /\ pools[qtarget'[q]].conn = "ok"
          /\ (qpc[q] = "await_connect" /\ qpc'[q] # "await_connect"
                /\ pools[qtarget[q]].conn # "ok") =>
               /\ pools[qtarget[q]].conn = "err"
               /\ qpc'[q] = "done" /\ qres'[q] = "ConnectError"]_vars

\* Disconnect call d is issued while no lifecycle call is in flight.
DisconnectCalled(d) == dpc[d] = "idle" /\ dpc'[d] # "idle" /\ LifecycleQuiet

\* C19: disconnect on an instance on which no connect has ever succeeded
\* resolves at once, calls drain, clear, end or close on no pool and changes
\* no field, no reference and no pool.
C19_DisconnectNeverConnectedIsNoOp ==
  [][\A d \in D :
       (DisconnectCalled(d) /\ ~everConnected) =>
         /\ dpc'[d] = "done" /\ dres'[d] = Ok
         /\ UNCHANGED << fields, refs, pools, npools >>]_vars

\* C20: a disconnect call that follows a resolved disconnect, with no connect
\* in between, resolves at once and calls drain, clear, end or close on no
\* pool, for both classes and every backend kind.
C20_DisconnectIdempotent ==
  [][\A d \in D :
       (DisconnectCalled(d) /\ cd = "disconnected") =>
         /\ dpc'[d] = "done" /\ dres'[d] = Ok
         /\ UNCHANGED << fields, refs, pools, npools >>]_vars

\* An executeQuery call (direct, or made by executeProcedure) on the
\* relational-server backend with an empty parameter list, handed to the
\* native pool.
MssqlCallWithoutParameters(q) ==
  /\ cls = "multi" /\ ~isHana /\ ~isPostgres
  /\ qsent[q] # NoCall /\ qsent[q].args = << >>

\* C21: on the MSSQL backend, executeQuery with no parameter rewrites
\* nothing: the text handed to the native pool is the {db}-substituted text
\* with every ? it contains, it goes through the pool's own query, and no
\* request with bound parameters is built.
C21_NoRewriteWithoutParameters ==
  \A q \in Q :
    MssqlCallWithoutParameters(q) =>
      /\ qsent[q].via = "mssql.query"
      /\ qsent[q].text = qsent[q].q
      /\ Count(qsent[q].text, "?") = Count(qsent[q].q, "?")
      /\ qsent[q].inputs = << >>

C21_Witness ==
  \E q \in Q :
    /\ MssqlCallWithoutParameters(q) /\ qcall[q].op = "query"
    /\ Count(qcall[q].text, "?") >= 1 /\ Count(qsent[q].text, "?") >= 2

\* The bound-parameter names written in a text: mssqlboundparm<i> for every
\* @mssqlboundparm<i> it contains.
NamesInText(s) ==
  { BoundName(i) : i \in { n \in 0..Len(s) :
      \E k \in 1..Len(s) : StartsAt(s, k, << "@" >> \o BoundName(n)) } }

\* The names bound on the request.
NamesBound(inputs) == { inputs[j][1] : j \in 1..Len(inputs) }

\* C22: on the MSSQL backend a request issued with bound parameters names
\* in its text exactly the parameters bound on it; a call whose text has a
\* number of ? other than its (non-zero) number of parameters issues no
\* request.
C22_BoundNamesMatchText ==
  \A q \in Q :
    (cls = "multi" /\ ~isHana /\ ~isPostgres /\ qsent[q] # NoCall
       /\ Len(qsent[q].args) > 0) =>
      /\ qsent[q].via = "req.query" =>
           NamesInText(qsent[q].text) = NamesBound(qsent[q].inputs)
      /\ Count(qsent[q].q, "?") # Len(qsent[q].args) => qsent[q].via # "req.query"

\* The value of finalQuery before each test of the loop of lines 421-424,
\* the first iteration numbered i.
RECURSIVE LoopTexts(_, _)
LoopTexts(finalQuery, i) ==
  IF HasMark(finalQuery)
  THEN << finalQuery >>
       \o LoopTexts(ReplaceFirst(finalQuery, << "?" >>, << "@" >> \o BoundName(i)),
                    i + 1)
  ELSE << finalQuery >>

\* An executeQuery call on the relational-server backend with parameters
\* that ran the rewrite loop, whether or not the stored connection promise
\* then let it reach the native request.
MssqlCallWithParameters(q) ==
  /\ cls = "multi" /\ ~isHana /\ ~isPostgres
  /\ qprep[q] # NoCall /\ Len(qprep[q].args) > 0

\* C23: the rewrite loop ends for every text and non-empty parameter list:
\* every iteration takes one ? out of the text and puts in a name without ?,
\* so it runs once per ? of the text, whatever the number of parameters, and
\* leaves no ?.
C23_RewriteLoopTerminates ==
  \A q \in Q :
    MssqlCallWithParameters(q) =>
      LET r == RewriteLoop(qprep[q].q, 0)
          ts == LoopTexts(qprep[q].q, 0)
      IN /\ r.i = Count(qprep[q].q, "?")
         /\ Len(ts) = r.i + 1
         /\ ts[Len(ts)] = r.text /\ qprep[q].text = r.text
         /\ Count(r.text, "?") = 0
         /\ \A k \in 1..(Len(ts) - 1) :
              /\ Count(ts[k + 1], "?") = Count(ts[k], "?") - 1
              /\ Len(ts[k + 1]) = Len(ts[k]) + Len(BoundName(k - 1))
              /\ Count(BoundName(k - 1), "?") = 0
         /\ qsent[q] # NoCall => qsent[q].text = r.text

C23_Witness ==
  \E q \in Q :
    /\ MssqlCallWithParameters(q) /\ qsent[q] = qprep[q]
    /\ Count(qprep[q].q, "?") = 3 /\ Len(qprep[q].args) = 1
    /\ RewriteLoop(qprep[q].q, 0).i = 3

\* Call q is in flight on the columnar backend.
InFlightColumnar(q) ==
  \/ qpc[q] = "waiting" /\ pools[qtarget[q]].kind = "HANA"
  \/ qpc[q] \in {"exec", "hung"} /\ pools[qheld[q]].kind = "HANA"

\* Call q holds a session of a columnar pool.
HoldsColumnar(q) == qheld[q] # NoRef /\ pools[qheld[q]].kind = "HANA"

\* C24: on the columnar backend, with a driver that calls back for every
\* exec and a pool fair to waiting acquires, every call in flight eventually
\* settles, every session acquired is eventually released, and a disconnect
\* call waiting for its drain eventually resolves.
C24_ColumnarLiveness ==
  /\ \A q \in Q : InFlightColumnar(q) ~> (qpc[q] = "done")
  /\ \A q \in Q : HoldsColumnar(q) ~> (qheld[q] = NoRef)
  /\ \A d \in D : (dpc[d] = "drain") ~> (dpc[d] = "done")

====
